---- MODULE Spec2Model ----
(***************************************************************************)
(* A model of redis_cache/__init__.py: the argument normalizer (get_args), *)
(* the key codec (get_key), the Lua store-and-evict script run by the      *)
(* Redis server, and the clients that call the wrapped function, mget,     *)
(* invalidate and invalidate_all against one shared Redis keyspace.        *)
(*                                                                         *)
(* Text is a sequence of byte values (ASCII codes), so that serialisation  *)
(* and base64 are computed, not assumed.                                   *)
(***************************************************************************)
EXTENDS Integers, Sequences, FiniteSets, TLC

\* ------------------------------------------------------------------ bounds

\* Largest argument value of the wrapped function in the client model.
MaxArg == 3
\* Number of concurrent clients.
NumClients == 2
\* Largest configured size limit.
MaxLimit == 2
\* The microsecond the model's server clock starts at, and the last it reaches.
StartUsec == 8
MaxUsec == 10
\* Longest request list given to mget.
MaxReqs == 2
\* Largest argument value in the normalizer's calls.
MaxVal == 2

\* ------------------------------------------------------------ python values

\* A JSON-serialisable Python value: an int, a list of ints, or a dict
\* (insertion-ordered, as Python's dict) from names to values.
IntVal(n) == [t |-> "int", i |-> n, l |-> <<>>, d |-> <<>>]
ListVal(s) == [t |-> "list", i |-> 0, l |-> s, d |-> <<>>]
DictVal(es) == [t |-> "dict", i |-> 0, l |-> <<>>, d |-> es]

\* dict: `k in d`
DictHas(es, k) == \E j \in 1..Len(es) : es[j].k = k

\* dict: `d[k]`
DictGet(es, k) == es[CHOOSE j \in 1..Len(es) : es[j].k = k].v

\* dict: `d[k] = v`; an existing key keeps its position, a new one goes last.
DictSet(es, k, v) ==
    IF DictHas(es, k)
    THEN [j \in 1..Len(es) |-> IF es[j].k = k THEN [k |-> k, v |-> v] ELSE es[j]]
    ELSE Append(es, [k |-> k, v |-> v])

\* Python's dict equality: same keys with equal values, whatever the order.
DictEq(d1, d2) ==
    /\ Len(d1) = Len(d2)
    /\ \A j \in 1..Len(d1) :
          /\ DictHas(d2, d1[j].k)
          /\ LET w == DictGet(d2, d1[j].k) IN
                /\ w.t = d1[j].v.t
                /\ w.i = d1[j].v.i
                /\ w.l = d1[j].v.l
                /\ Len(w.d) = Len(d1[j].v.d)
                /\ \A m \in 1..Len(w.d) :
                      /\ DictHas(d1[j].v.d, w.d[m].k)
                      /\ DictGet(d1[j].v.d, w.d[m].k) = w.d[m].v

\* ------------------------------------------------------------------- text

\* The UTF-8 bytes of the identifiers the model uses.
NameBytes ==
    [n \in {"a", "b", "c", "x", "args", "kw"} |->
        CASE n = "a" -> <<97>>
          [] n = "b" -> <<98>>
          [] n = "c" -> <<99>>
          [] n = "x" -> <<120>>
          [] n = "args" -> <<97, 114, 103, 115>>
          [] n = "kw" -> <<107, 119>>]

RECURSIVE Digits(_)
\* The decimal digits of a natural number, as json.dumps and Redis print it.
Digits(n) == IF n < 10 THEN <<48 + n>> ELSE Digits(n \div 10) \o <<48 + (n % 10)>>

RECURSIVE DumpInts(_)
DumpInts(s) ==
    IF Len(s) = 0 THEN <<>>
    ELSE IF Len(s) = 1 THEN Digits(s[1])
    ELSE Digits(s[1]) \o <<44>> \o DumpInts(Tail(s))

RECURSIVE DumpEntries(_)
RECURSIVE compact_dump(_)
\* dumps(value, separators=(',', ':')): no whitespace, dict keys in insertion
\* order (sort_keys is not set).
compact_dump(value) ==
    CASE value.t = "int" -> Digits(value.i)
      [] value.t = "list" -> <<91>> \o DumpInts(value.l) \o <<93>>
      [] value.t = "dict" -> <<123>> \o DumpEntries(value.d) \o <<125>>

DumpEntries(es) ==
    IF Len(es) = 0 THEN <<>>
    ELSE LET e == <<34>> \o NameBytes[es[1].k] \o <<34, 58>> \o compact_dump(es[1].v) IN
         IF Len(es) = 1 THEN e ELSE e \o <<44>> \o DumpEntries(Tail(es))

\* The base64 alphabet: index 0..63 to its ASCII code.
B64Char(i) ==
    IF i < 26 THEN 65 + i
    ELSE IF i < 52 THEN 97 + (i - 26)
    ELSE IF i < 62 THEN 48 + (i - 52)
    ELSE IF i = 62 THEN 43 ELSE 47

RECURSIVE b64encode(_)
\* base64.b64encode: three bytes to four characters, '=' padding.
b64encode(s) ==
    IF Len(s) = 0 THEN <<>>
    ELSE IF Len(s) = 1 THEN
        <<B64Char(s[1] \div 4), B64Char((s[1] % 4) * 16), 61, 61>>
    ELSE IF Len(s) = 2 THEN
        <<B64Char(s[1] \div 4), B64Char((s[1] % 4) * 16 + (s[2] \div 16)),
          B64Char((s[2] % 16) * 4), 61>>
    ELSE
        <<B64Char(s[1] \div 4), B64Char((s[1] % 4) * 16 + (s[2] \div 16)),
          B64Char((s[2] % 16) * 4 + (s[3] \div 64)), B64Char(s[3] % 64)>>
        \o b64encode(SubSeq(s, 4, Len(s)))

\* ------------------------------------------------------ argument normalizer

\* A signature is a sequence of parameters [name, kind], kind one of
\* inspect.Parameter's POSITIONAL_ONLY, POSITIONAL_OR_KEYWORD, VAR_POSITIONAL,
\* KEYWORD_ONLY, VAR_KEYWORD.
NamesOfKind(sig, kinds) ==
    LET RECURSIVE pick(_)
        pick(j) ==
            IF j > Len(sig) THEN <<>>
            ELSE (IF sig[j].kind \in kinds THEN <<sig[j].name>> ELSE <<>>) \o pick(j + 1)
    IN pick(1)

standard_args(sig) == NamesOfKind(sig, {"POSITIONAL_OR_KEYWORD"})
allowed_kwargs(sig) ==
    {sig[j].name : j \in {m \in 1..Len(sig) :
        sig[m].kind \in {"POSITIONAL_OR_KEYWORD", "KEYWORD_ONLY"}}}
variable_args(sig) == NamesOfKind(sig, {"VAR_POSITIONAL"})
variable_kwargs(sig) == NamesOfKind(sig, {"VAR_KEYWORD"})

RECURSIVE ParseArgs(_, _, _, _)
\* The loop over enumerate(args): the index-th value goes to the index-th
\* POSITIONAL_OR_KEYWORD name; past them it is appended to the *args list,
\* or dropped when the signature has none.
ParseArgs(sig, args, index, parsed_args) ==
    IF index > Len(args) THEN parsed_args
    ELSE IF index <= Len(standard_args(sig)) THEN
        ParseArgs(sig, args, index + 1,
                  DictSet(parsed_args, standard_args(sig)[index], args[index]))
    ELSE IF Len(variable_args(sig)) > 0 THEN
        LET vargs_name == variable_args(sig)[1]
            p1 == IF DictHas(parsed_args, vargs_name) THEN parsed_args
                  ELSE DictSet(parsed_args, vargs_name, ListVal(<<>>))
            cur == DictGet(p1, vargs_name)
        IN ParseArgs(sig, args, index + 1,
                     DictSet(p1, vargs_name, ListVal(Append(cur.l, args[index].i))))
    ELSE ParseArgs(sig, args, index + 1, parsed_args)

RECURSIVE ParseKwargs(_, _, _, _)
\* The loop over kwargs.items(), in call order: a name of an ordinary or
\* keyword-only parameter is set at the top level; any other goes into the
\* **kwargs dict, or is dropped when the signature has none.
ParseKwargs(sig, kwargs, index, parsed_args) ==
    IF index > Len(kwargs) THEN parsed_args
    ELSE IF kwargs[index].k \in allowed_kwargs(sig) THEN
        ParseKwargs(sig, kwargs, index + 1,
                    DictSet(parsed_args, kwargs[index].k, kwargs[index].v))
    ELSE IF Len(variable_kwargs(sig)) > 0 THEN
        LET vkwargs_name == variable_kwargs(sig)[1]
            p1 == IF DictHas(parsed_args, vkwargs_name) THEN parsed_args
                  ELSE DictSet(parsed_args, vkwargs_name, DictVal(<<>>))
            cur == DictGet(p1, vkwargs_name)
        IN ParseKwargs(sig, kwargs, index + 1,
                       DictSet(p1, vkwargs_name,
                               DictVal(DictSet(cur.d, kwargs[index].k, kwargs[index].v))))
    ELSE ParseKwargs(sig, kwargs, index + 1, parsed_args)

\* get_args(fn, args, kwargs): the normalized argument map, a dict.
get_args(sig, args, kwargs) ==
    LET after_args ==
            IF Len(standard_args(sig)) > 0 \/ Len(variable_args(sig)) > 0
            THEN ParseArgs(sig, args, 1, <<>>)
            ELSE <<>>
    IN IF Len(kwargs) > 0 THEN ParseKwargs(sig, kwargs, 1, after_args) ELSE after_args

\* ---------------------------------------------------------------- key codec

\* RedisCache's default prefix, "rc".
Prefix == <<114, 99>>
\* A decorator's namespace, "ns".
Namespace == <<110, 115>>
\* A namespace with characters a glob pattern reads as a class, "n[st]".
GlobNamespace == <<110, 91, 115, 116, 93>>
\* The namespaces the decorator is configured with.
Namespaces == {Namespace, GlobNamespace}

\* f'{{{self.prefix}:{self.namespace}}}'
get_full_prefix(prefix, namespace_arg) ==
    <<123>> \o prefix \o <<58>> \o namespace_arg \o <<125>>

\* get_key with the JSON serializer as key serializer: the map is dumped,
\* base64-encoded and put after '{prefix:namespace}:'.
get_key(prefix, namespace_arg, sig, args, kwargs) ==
    LET normalized_args == get_args(sig, args, kwargs)
        serialized_data == compact_dump(DictVal(normalized_args))
        serialized_encoded_data == b64encode(serialized_data)
    IN get_full_prefix(prefix, namespace_arg) \o <<58>> \o serialized_encoded_data

\* f'{self.get_full_prefix()}:keys', for each namespace.
IndexKeyOf == [n \in Namespaces |-> get_full_prefix(Prefix, n) \o <<58, 107, 101, 121, 115>>]

\* ------------------------------------------------------------ configuration

\* The wrapped function's signature: def original_fn(x).
FnSig == <<[name |-> "x", kind |-> "POSITIONAL_OR_KEYWORD"]>>

\* The argument values the clients call the wrapped function with.
ArgVals == 1..MaxArg

\* The wrapped function: original_fn(x) = "a" * (x - 1), a Python str given as
\* its sequence of characters; original_fn(1) is the empty string.
original_fn(x) == [j \in 1..(x - 1) |-> "a"]

\* The value serializer the cache is constructed with: str.encode (UTF-8).
serializer(result) == [j \in 1..Len(result) |-> IF result[j] = "a" THEN 97 ELSE 63]

\* The value deserializer the cache is constructed with: bytes.decode.
deserializer(payload) == [j \in 1..Len(payload) |-> IF payload[j] = 97 THEN "a" ELSE "?"]

\* The store key of original_fn(a) in each namespace, by get_key
\* (key_serializer = compact_dump).
KeyTable == [n \in Namespaces |->
                [a \in ArgVals |-> get_key(Prefix, n, FnSig, <<IntVal(a)>>, <<>>)]]

\* A key another decorator (namespace "nt") keeps in the same Redis.
ForeignKey == get_key(Prefix, <<110, 116>>, FnSig, <<IntVal(1)>>, <<>>)

\* The error kinds a Redis call raises; fallback_exceptions lists the first.
ErrorKinds == {"ConnectionError", "ResponseError"}
fallback_exceptions == {"ConnectionError"}

\* ------------------------------------------------------------------- redis

\* A keyspace is a function from the keys that exist to their values: a
\* string with its time to live (0: none), or a sorted set of
\* [member, score, at]; `at` is the server time, in microseconds, of the
\* ZADD that set the score: a record of history that no command reads.
StringEntry(v, t) == [type |-> "string", value |-> v, ttl |-> t, members |-> {}]
ZsetEntry(ms) == [type |-> "zset", value |-> <<>>, ttl |-> 0, members |-> ms]

Put(d, k, e) == [x \in (DOMAIN d) \cup {k} |-> IF x = k THEN e ELSE d[x]]
Remove(d, ks) == [x \in (DOMAIN d) \ ks |-> d[x]]

\* GET key: the payload, or nothing.
GET(d, k) ==
    IF k \in DOMAIN d THEN [some |-> TRUE, bytes |-> d[k].value]
    ELSE [some |-> FALSE, bytes |-> <<>>]

SET(d, k, v) == Put(d, k, StringEntry(v, 0))
SETEX(d, k, t, v) == Put(d, k, StringEntry(v, t))

\* DEL key [key ...]
DEL(d, ks) == Remove(d, ks)

Members(d, k) == IF k \in DOMAIN d THEN d[k].members ELSE {}

\* A sorted set with no member left does not exist.
PutZset(d, k, ms) == IF ms = {} THEN Remove(d, {k}) ELSE Put(d, k, ZsetEntry(ms))

\* A sorted set that kept a member's old score beside the new one.
ZADDKeepsOld(d, k, score, member, at) ==
    PutZset(d, k, Members(d, k) \cup {[member |-> member, score |-> score, at |-> at]})

\* ZADD key score member: adds the member, or moves it to the new score.
ZADD(d, k, score, member, at) ==
    PutZset(d, k, {m \in Members(d, k) : m.member # member}
                    \cup {[member |-> member, score |-> score, at |-> at]})

\* ZCOUNT key -inf +inf
ZCOUNT(d, k) == Cardinality(Members(d, k))

\* ZREM key member [member ...]
ZREM(d, k, ms) == PutZset(d, k, {m \in Members(d, k) : m.member \notin ms})

\* Byte-wise lexicographic order, Redis's order of members with equal scores.
LexLess(s, t) ==
    \E j \in 1..(Len(s) + 1) :
        /\ j <= Len(t)
        /\ \A i \in 1..(j - 1) : s[i] = t[i]
        /\ (j = Len(s) + 1 \/ s[j] < t[j])

\* The sorted set's order: by score, then by member.
ZLess(m1, m2) ==
    \/ m1.score < m2.score
    \/ (m1.score = m2.score /\ LexLess(m1.member, m2.member))

ZMin(ms) == CHOOSE m \in ms : \A o \in ms \ {m} : ZLess(m, o)

RECURSIVE ZLowest(_, _)
\* The n lowest members of a sorted set, lowest first.
ZLowest(ms, n) ==
    IF n <= 0 \/ ms = {} THEN <<>>
    ELSE <<ZMin(ms)>> \o ZLowest(ms \ {ZMin(ms)}, n - 1)

\* ZPOPMIN key count: the popped members (with their scores), and the
\* keyspace without them.
ZPOPMIN_reply(d, k, n) == ZLowest(Members(d, k), n)
ZPOPMIN(d, k, n) ==
    PutZset(d, k, Members(d, k) \ {ZPOPMIN_reply(d, k, n)[j] : j \in 1..Len(ZPOPMIN_reply(d, k, n))})

RECURSIVE NumDigits(_)
NumDigits(n) == IF n < 10 THEN 1 ELSE 1 + NumDigits(n \div 10)

RECURSIVE Pow10(_)
Pow10(e) == IF e = 0 THEN 1 ELSE 10 * Pow10(e - 1)

\* tonumber(time_parts[1] .. '.' .. time_parts[2]): TIME replies the seconds
\* and the microseconds as decimal strings, the microseconds without leading
\* zeros; the number read back is seconds + 0.<microsecond digits>. Scores
\* are kept in millionths, which is exact for up to six digits.
LuaTime(t) == t.sec * 1000000 + t.usec * Pow10(6 - NumDigits(t.usec))

\* The server time in microseconds.
Micros(t) == t.sec * 1000000 + t.usec

\* A slip in the script's arithmetic: one member too few is popped.
OverOffByOne(count, limit_arg) == count - limit_arg - 1

\* local over = count - limit
Over(count, limit_arg) == count - limit_arg

\* A script that keeps the index whatever the limit, 0 included.
LuaScriptAlwaysIndexes(d, key, index_key, payload, ttl_arg, limit_arg, t) ==
    LET d1 == IF ttl_arg > 0 THEN SETEX(d, key, ttl_arg, payload) ELSE SET(d, key, payload)
    IN IF limit_arg >= 0 THEN
           LET time == LuaTime(t)
               d2 == ZADD(d1, index_key, time, key, Micros(t))
               count == ZCOUNT(d2, index_key)
               over == Over(count, limit_arg)
           IN IF over > 0 THEN
                  LET stale_keys_and_scores == ZPOPMIN_reply(d2, index_key, over)
                      d3 == ZPOPMIN(d2, index_key, over)
                      stale_keys == {stale_keys_and_scores[j].member :
                                        j \in 1..Len(stale_keys_and_scores)}
                      d4 == ZREM(d3, index_key, stale_keys)
                  IN DEL(d4, stale_keys)
              ELSE d2
       ELSE d1

\* The registered script, KEYS = [entry key, index key],
\* ARGV = [payload, ttl, limit], run by the server as one step at time t.
LuaScript(d, key, index_key, payload, ttl_arg, limit_arg, t) ==
    LET d1 == IF ttl_arg > 0 THEN SETEX(d, key, ttl_arg, payload) ELSE SET(d, key, payload)
    IN IF limit_arg > 0 THEN
           LET time == LuaTime(t)
               d2 == ZADD(d1, index_key, time, key, Micros(t))
               count == ZCOUNT(d2, index_key)
               over == Over(count, limit_arg)
           IN IF over > 0 THEN
                  LET stale_keys_and_scores == ZPOPMIN_reply(d2, index_key, over)
                      d3 == ZPOPMIN(d2, index_key, over)
                      stale_keys == {stale_keys_and_scores[j].member :
                                        j \in 1..Len(stale_keys_and_scores)}
                      d4 == ZREM(d3, index_key, stale_keys)
                  IN DEL(d4, stale_keys)
              ELSE d2
       ELSE d1

\* Whether a key begins with '<full prefix>:'.
StartsWith(k, full_prefix) ==
    /\ Len(k) >= Len(full_prefix) + 1
    /\ SubSeq(k, 1, Len(full_prefix)) = full_prefix
    /\ k[Len(full_prefix) + 1] = 58

Min2(x, y) == IF x < y THEN x ELSE y
Max2(x, y) == IF x < y THEN y ELSE x

RECURSIVE ClassEnd(_, _)
\* The position of the ']' that closes the class whose elements start at i
\* (past the pattern's end when none does).
ClassEnd(pattern, i) ==
    IF i > Len(pattern) THEN i
    ELSE IF pattern[i] = 92 /\ i + 1 <= Len(pattern) THEN ClassEnd(pattern, i + 2)
    ELSE IF pattern[i] = 93 THEN i
    ELSE IF i + 2 <= Len(pattern) /\ pattern[i + 1] = 45 THEN ClassEnd(pattern, i + 3)
    ELSE ClassEnd(pattern, i + 1)

RECURSIVE InClass(_, _, _, _)
\* Whether the byte c is one of the class elements pattern[i..e-1]: an
\* escaped byte, a range lo-hi, or a byte.
InClass(pattern, i, e, c) ==
    IF i >= e THEN FALSE
    ELSE IF pattern[i] = 92 /\ i + 1 <= Len(pattern)
         THEN pattern[i + 1] = c \/ InClass(pattern, i + 2, e, c)
    ELSE IF i + 2 <= Len(pattern) /\ pattern[i + 1] = 45
         THEN LET lo == Min2(pattern[i], pattern[i + 2])
                  hi == Max2(pattern[i], pattern[i + 2])
              IN (lo <= c /\ c <= hi) \/ InClass(pattern, i + 3, e, c)
    ELSE pattern[i] = c \/ InClass(pattern, i + 1, e, c)

RECURSIVE GlobMatch(_, _)
\* Redis's glob-style match of SCAN MATCH: '*' any bytes, '?' any one byte,
\* '[...]' one byte of a class ('^' negates), '\' the next byte as it is,
\* any other byte itself.
GlobMatch(pattern, string) ==
    IF Len(pattern) = 0 THEN Len(string) = 0
    ELSE IF pattern[1] = 42
         THEN \/ GlobMatch(Tail(pattern), string)
              \/ Len(string) > 0 /\ GlobMatch(pattern, Tail(string))
    ELSE IF Len(string) = 0 THEN FALSE
    ELSE IF pattern[1] = 63 THEN GlobMatch(Tail(pattern), Tail(string))
    ELSE IF pattern[1] = 91
         THEN LET negated == Len(pattern) >= 2 /\ pattern[2] = 94
                  first == IF negated THEN 3 ELSE 2
                  e == ClassEnd(pattern, first)
              IN /\ InClass(pattern, first, e, string[1]) # negated
                 /\ GlobMatch(SubSeq(pattern, e + 1, Len(pattern)), Tail(string))
    ELSE IF pattern[1] = 92 /\ Len(pattern) >= 2
         THEN /\ pattern[2] = string[1]
              /\ GlobMatch(SubSeq(pattern, 3, Len(pattern)), Tail(string))
    ELSE /\ pattern[1] = string[1]
         /\ GlobMatch(Tail(pattern), Tail(string))

\* Whether a key matches the pattern f'{full_prefix}:*' given to SCAN.
MatchesPrefix(k, full_prefix) == GlobMatch(full_prefix \o <<58, 42>>, k)

RECURSIVE SortKeys(_)
SortKeys(ks) ==
    IF ks = {} THEN <<>>
    ELSE LET least == CHOOSE k \in ks : \A o \in ks \ {k} : LexLess(k, o)
         IN <<least>> \o SortKeys(ks \ {least})

\* scan_iter(match): the keys that match, each once. (A keyspace this small
\* is walked by a single SCAN call; the order is the server's.)
scan_iter(d, full_prefix) == SortKeys({k \in DOMAIN d : MatchesPrefix(k, full_prefix)})

RECURSIVE chunksDropsShort(_, _)
\* A chunker that yields full chunks only: the last, shorter one is lost.
chunksDropsShort(iterable, n) ==
    IF Len(iterable) < n THEN <<>>
    ELSE <<SubSeq(iterable, 1, n)>>
             \o chunksDropsShort(SubSeq(iterable, n + 1, Len(iterable)), n)

RECURSIVE chunks(_, _)
\* chunks(iterable, n): successive lists of n elements, the last one shorter;
\* no empty list is yielded.
chunks(iterable, n) ==
    IF Len(iterable) = 0 THEN <<>>
    ELSE IF Len(iterable) <= n THEN <<iterable>>
    ELSE <<SubSeq(iterable, 1, n)>> \o chunks(SubSeq(iterable, n + 1, Len(iterable)), n)

\* ------------------------------------------------------------------- state

VARIABLES
    db,      \* the Redis keyspace
    now,     \* the server's clock, [sec, usec], as TIME replies it
    ttl,     \* the decorator's ttl
    limit,   \* the decorator's limit
    pc,      \* each client's position in its current operation
    loc,     \* each client's local variables and its last return
    traced,  \* the clients whose arguments and returns are kept in loc
    norm,    \* the normalizer's calls and results (ArgSpec only)
    namespace \* the decorator's namespace

vars == <<db, now, ttl, limit, pc, loc, traced, norm, namespace>>

\* self.keys_key = f'{self.get_full_prefix()}:keys'
keys_key == IndexKeyOf[namespace]

\* The store key of original_fn(a), by get_key.
KeyOf == KeyTable[namespace]

Clients == 1..NumClients

NoRet == [kind |-> "none", vals |-> <<>>, err |-> "", count |-> 0]
Returned(v) == [kind |-> "value", vals |-> <<v>>, err |-> "", count |-> 0]
ReturnedList(vs) == [kind |-> "values", vals |-> vs, err |-> "", count |-> 0]
Raised(e) == [kind |-> "raise", vals |-> <<>>, err |-> e, count |-> 0]
Deleted(n) == [kind |-> "none", vals |-> <<>>, err |-> "", count |-> n]

\* A client's locals: the operation and its arguments, the script calls not
\* yet executed, the chunks not yet deleted, how often the operation invoked
\* the wrapped function, and what it returned.
Local(op, req, queue, chunks_gen, invoked, ret) ==
    [op |-> op, req |-> req, queue |-> queue, chunks_gen |-> chunks_gen,
     invoked |-> invoked, ret |-> ret]

NoNorm == [sig |-> <<>>, calls |-> <<>>, results |-> <<>>]

\* The sorted set of the namespace, and the namespace's entries in the store.
Index(d) == Members(d, keys_key)
IndexKeys(d) == {m.member : m \in Index(d)}
Entries(d) == {k \in DOMAIN d :
                  /\ StartsWith(k, get_full_prefix(Prefix, namespace))
                  /\ d[k].type = "string"}

NoLocal == Local("none", <<>>, <<>>, <<>>, 0, NoRet)

\* A client's locals as the state keeps them: whole for a traced client; for
\* any other only what its operation still reads (the queued script calls
\* and the chunks), its arguments and its return being its caller's.
Kept(p, l) ==
    IF p \in traced THEN l
    ELSE Local("none", <<>>, l.queue, l.chunks_gen, 0, NoRet)

\* The state after construction: an empty namespace beside another
\* decorator's entry, the decorator configured with a ttl and a limit.
Start(limits) ==
    /\ db = Put(<<>>, ForeignKey, StringEntry(serializer(original_fn(2)), 0))
    /\ now = [sec |-> 0, usec |-> StartUsec]
    /\ ttl \in {0, 1}
    /\ limit \in limits
    /\ pc = [p \in Clients |-> "idle"]
    /\ loc = [p \in Clients |-> NoLocal]
    /\ norm = NoNorm

Init ==
    /\ Start(1..MaxLimit)
    /\ traced = {}
    /\ namespace = Namespace

Ready(p) == pc[p] \in {"idle", "done"}

Continue(p, at, l) ==
    /\ pc' = [pc EXCEPT ![p] = at]
    /\ loc' = [loc EXCEPT ![p] = Kept(p, l)]

Finish(p, l) == Continue(p, "done", l)

\* The script call a miss makes: keys=[key, keys_key], args=[payload, ttl, limit].
ScriptCall(key, payload) == [key |-> key, payload |-> payload]

RECURSIVE RunScripts(_, _, _, _, _)
\* The queued script calls, executed in order by the server.
RunScripts(d, queue, ttl_arg, limit_arg, t) ==
    IF Len(queue) = 0 THEN d
    ELSE RunScripts(LuaScript(d, queue[1].key, keys_key, queue[1].payload,
                              ttl_arg, limit_arg, t),
                    Tail(queue), ttl_arg, limit_arg, t)

\* ------------------------------------------------------------ the server

\* The server's clock advances.
Tick ==
    /\ now.usec < MaxUsec
    /\ now' = [now EXCEPT !.usec = now.usec + 1]
    /\ UNCHANGED <<db, ttl, limit, pc, loc, traced, norm, namespace>>

\* The store expires an entry written with a time to live.
Expire(k) ==
    /\ k \in DOMAIN db
    /\ db[k].ttl > 0
    /\ db' = Remove(db, {k})
    /\ UNCHANGED <<now, ttl, limit, pc, loc, traced, norm, namespace>>

\* ------------------------------------------------------- the wrapped call

\* A fallback that caches what it computed: the function's result is queued
\* for the script as on a miss.
CallReadRaisesThenWrites(p, a, e) ==
    /\ Ready(p)
    /\ IF e \in fallback_exceptions
       THEN Continue(p, "script",
                     Local("call", <<a>>,
                           <<ScriptCall(KeyOf[a], serializer(original_fn(a)))>>,
                           <<>>, 1, NoRet))
       ELSE Finish(p, Local("call", <<a>>, <<>>, <<>>, 0, Raised(e)))
    /\ UNCHANGED <<db, now, ttl, limit, traced, norm, namespace>>

\* inner(a): client.get(key) raises. A kind in fallback_exceptions is caught
\* and the function's result returned; any other propagates.
CallReadRaises(p, a, e) ==
    /\ Ready(p)
    /\ IF e \in fallback_exceptions
       THEN Finish(p, Local("call", <<a>>, <<>>, <<>>, 1, Returned(original_fn(a))))
       ELSE Finish(p, Local("call", <<a>>, <<>>, <<>>, 0, Raised(e)))
    /\ UNCHANGED <<db, now, ttl, limit, traced, norm, namespace>>

\* `not result`: None and the empty payload are both falsy.
IsFalsy(result) == ~result.some \/ Len(result.bytes) = 0

\* inner(a): client.get(key) replies. A falsy reply invokes the function and
\* leaves the script call to make; any other is deserialized and returned.
CallRead(p, a) ==
    /\ Ready(p)
    /\ LET key == KeyOf[a]
           result == GET(db, key)
       IN IF IsFalsy(result)
          THEN Continue(p, "script",
                        Local("call", <<a>>,
                              <<ScriptCall(key, serializer(original_fn(a)))>>,
                              <<>>, 1, NoRet))
          ELSE Finish(p, Local("call", <<a>>, <<>>, <<>>, 0,
                               Returned(deserializer(result.bytes))))
    /\ UNCHANGED <<db, now, ttl, limit, traced, norm, namespace>>

\* inner(a), the miss: the script runs on the server and the computed result
\* is returned.
CallScript(p) ==
    /\ pc[p] = "script"
    /\ db' = RunScripts(db, loc[p].queue, ttl, limit, now)
    /\ Finish(p, Local("call", loc[p].req, <<>>, <<>>, loc[p].invoked,
                       Returned(deserializer(loc[p].queue[1].payload))))
    /\ UNCHANGED <<now, ttl, limit, traced, norm, namespace>>

\* A miss whose script call is inside the try: a kind in fallback_exceptions
\* is caught and the computed result returned.
CallScriptRaisesCaught(p, e) ==
    /\ pc[p] = "script"
    /\ Finish(p, Local("call", loc[p].req, <<>>, <<>>, loc[p].invoked,
                       IF e \in fallback_exceptions
                       THEN Returned(deserializer(loc[p].queue[1].payload))
                       ELSE Raised(e)))
    /\ UNCHANGED <<db, now, ttl, limit, traced, norm, namespace>>

\* inner(a), the miss: the script call raises; nothing catches it.
CallScriptRaises(p, e) ==
    /\ pc[p] = "script"
    /\ Finish(p, Local("call", loc[p].req, <<>>, <<>>, loc[p].invoked, Raised(e)))
    /\ UNCHANGED <<db, now, ttl, limit, traced, norm, namespace>>

\* ------------------------------------------------------------------ mget

\* The request lists given to mget: (fn, args) with fn the wrapped function.
Requests == UNION {[1..n -> ArgVals] : n \in 1..MaxReqs}

\* An mget that returns the cached values first and the computed ones after.
MGetReadMissesLast(p, reqs) ==
    /\ Ready(p)
    /\ LET keys == [i \in 1..Len(reqs) |-> KeyOf[reqs[i]]]
           results == [i \in 1..Len(reqs) |-> GET(db, keys[i])]
           missing == {i \in 1..Len(reqs) : ~results[i].some}
           RECURSIVE queued(_)
           queued(i) ==
               IF i > Len(reqs) THEN <<>>
               ELSE (IF i \in missing
                     THEN <<ScriptCall(keys[i], serializer(original_fn(reqs[i])))>>
                     ELSE <<>>) \o queued(i + 1)
           RECURSIVE slots(_, _)
           slots(i, miss) ==
               IF i > Len(reqs) THEN <<>>
               ELSE (IF (i \in missing) = miss
                     THEN <<IF miss THEN original_fn(reqs[i])
                            ELSE deserializer(results[i].bytes)>>
                     ELSE <<>>) \o slots(i + 1, miss)
           deserialized_results == slots(1, FALSE) \o slots(1, TRUE)
           needs_pipeline == missing # {}
       IN IF needs_pipeline
          THEN Continue(p, "pipeline",
                        Local("mget", reqs, queued(1), <<>>, Cardinality(missing),
                              ReturnedList(deserialized_results)))
          ELSE Finish(p, Local("mget", reqs, <<>>, <<>>, 0,
                               ReturnedList(deserialized_results)))
    /\ UNCHANGED <<db, now, ttl, limit, traced, norm, namespace>>

\* An mget that computes and writes a key once however many slots ask for it.
MGetReadDedups(p, reqs) ==
    /\ Ready(p)
    /\ LET keys == [i \in 1..Len(reqs) |-> KeyOf[reqs[i]]]
           results == [i \in 1..Len(reqs) |-> GET(db, keys[i])]
           absent == {i \in 1..Len(reqs) : ~results[i].some}
           missing == {i \in absent : \A j \in absent : keys[j] = keys[i] => i <= j}
           RECURSIVE queued(_)
           queued(i) ==
               IF i > Len(reqs) THEN <<>>
               ELSE (IF i \in missing
                     THEN <<ScriptCall(keys[i], serializer(original_fn(reqs[i])))>>
                     ELSE <<>>) \o queued(i + 1)
           deserialized_results ==
               [i \in 1..Len(reqs) |->
                   IF i \in absent THEN original_fn(reqs[i])
                   ELSE deserializer(results[i].bytes)]
           needs_pipeline == missing # {}
       IN IF needs_pipeline
          THEN Continue(p, "pipeline",
                        Local("mget", reqs, queued(1), <<>>, Cardinality(missing),
                              ReturnedList(deserialized_results)))
          ELSE Finish(p, Local("mget", reqs, <<>>, <<>>, 0,
                               ReturnedList(deserialized_results)))
    /\ UNCHANGED <<db, now, ttl, limit, traced, norm, namespace>>

\* mget: one MGET of all keys; each missing slot (`result is None`) invokes
\* the function and queues its script call on the pipeline; each other slot
\* is deserialized. With nothing queued the results are returned at once.
MGetRead(p, reqs) ==
    /\ Ready(p)
    /\ LET keys == [i \in 1..Len(reqs) |-> KeyOf[reqs[i]]]
           results == [i \in 1..Len(reqs) |-> GET(db, keys[i])]
           missing == {i \in 1..Len(reqs) : ~results[i].some}
           RECURSIVE queued(_)
           queued(i) ==
               IF i > Len(reqs) THEN <<>>
               ELSE (IF i \in missing
                     THEN <<ScriptCall(keys[i], serializer(original_fn(reqs[i])))>>
                     ELSE <<>>) \o queued(i + 1)
           deserialized_results ==
               [i \in 1..Len(reqs) |->
                   IF i \in missing THEN original_fn(reqs[i])
                   ELSE deserializer(results[i].bytes)]
           needs_pipeline == missing # {}
       IN IF needs_pipeline
          THEN Continue(p, "pipeline",
                        Local("mget", reqs, queued(1), <<>>, Cardinality(missing),
                              ReturnedList(deserialized_results)))
          ELSE Finish(p, Local("mget", reqs, <<>>, <<>>, 0,
                               ReturnedList(deserialized_results)))
    /\ UNCHANGED <<db, now, ttl, limit, traced, norm, namespace>>

\* mget: pipeline.execute() sends the queued script calls as one MULTI/EXEC
\* transaction; the results computed before are returned.
MGetExecute(p) ==
    /\ pc[p] = "pipeline"
    /\ db' = RunScripts(db, loc[p].queue, ttl, limit, now)
    /\ Finish(p, [loc[p] EXCEPT !.queue = <<>>])
    /\ UNCHANGED <<now, ttl, limit, traced, norm, namespace>>

\* ---------------------------------------------------------- invalidation

\* The reply of DEL key: how many keys it removed.
DEL_reply(d, k) == IF k \in DOMAIN d THEN 1 ELSE 0

\* An invalidate that deletes the entry and leaves its index member.
InvalidateKeepsMember(p, a) ==
    /\ Ready(p)
    /\ db' = DEL(db, {KeyOf[a]})
    /\ Finish(p, Local("invalidate", <<a>>, <<>>, <<>>, 0,
                       Deleted(DEL_reply(db, KeyOf[a]))))
    /\ UNCHANGED <<now, ttl, limit, traced, norm, namespace>>

\* invalidate(a): DEL key and ZREM keys_key key, one MULTI/EXEC transaction
\* (its replies are dropped; the model keeps DEL's).
Invalidate(p, a) ==
    /\ Ready(p)
    /\ db' = ZREM(DEL(db, {KeyOf[a]}), keys_key, {KeyOf[a]})
    /\ Finish(p, Local("invalidate", <<a>>, <<>>, <<>>, 0,
                       Deleted(DEL_reply(db, KeyOf[a]))))
    /\ UNCHANGED <<now, ttl, limit, traced, norm, namespace>>

\* The chunk size invalidate_all passes to chunks.
ChunkSize == 500

\* invalidate_all: the scan of '<full prefix>:*' is read and cut into chunks.
InvalidateAllScan(p) ==
    /\ Ready(p)
    /\ LET chunks_gen == chunks(scan_iter(db, get_full_prefix(Prefix, namespace)), ChunkSize)
       IN IF Len(chunks_gen) = 0
          THEN Finish(p, Local("invalidate_all", <<>>, <<>>, <<>>, 0, Deleted(0)))
          ELSE Continue(p, "delete",
                        Local("invalidate_all", <<>>, <<>>, chunks_gen, 0, Deleted(0)))
    /\ UNCHANGED <<db, now, ttl, limit, traced, norm, namespace>>

\* invalidate_all: client.delete(*keys) for the next chunk.
InvalidateAllDelete(p) ==
    /\ pc[p] = "delete"
    /\ LET keys == loc[p].chunks_gen[1]
           rest == Tail(loc[p].chunks_gen)
           n == loc[p].ret.count + Len(keys)
       IN /\ db' = DEL(db, {keys[j] : j \in 1..Len(keys)})
          /\ IF Len(rest) = 0
             THEN Finish(p, Local("invalidate_all", <<>>, <<>>, <<>>, 0, Deleted(n)))
             ELSE Continue(p, "delete",
                           Local("invalidate_all", <<>>, <<>>, rest, 0, Deleted(n)))
    /\ UNCHANGED <<now, ttl, limit, traced, norm, namespace>>

\* ------------------------------------------------------------ specification

ClientStep(p) ==
    \/ \E a \in ArgVals : CallRead(p, a)
    \/ \E a \in ArgVals, e \in ErrorKinds : CallReadRaises(p, a, e)
    \/ CallScript(p)
    \/ \E e \in ErrorKinds : CallScriptRaises(p, e)
    \/ \E reqs \in Requests : MGetRead(p, reqs)
    \/ MGetExecute(p)
    \/ \E a \in ArgVals : Invalidate(p, a)
    \/ InvalidateAllScan(p)
    \/ InvalidateAllDelete(p)

ServerStep ==
    \/ Tick
    \/ \E k \in DOMAIN db : Expire(k)

Next ==
    \/ \E p \in Clients : ClientStep(p)
    \/ ServerStep

\* Clients calling concurrently: their operations interleave at every Redis
\* command (a script and a MULTI/EXEC transaction are one command each).
Spec == Init /\ [][Next]_vars

\* One client calling alone, its arguments and returns kept, and the limit 0
\* among the configurations.
TraceInit ==
    /\ Start(0..MaxLimit)
    /\ traced = {1}
    /\ namespace \in Namespaces

TraceNext ==
    \/ ClientStep(1)
    \/ ServerStep

TraceSpec == TraceInit /\ [][TraceNext]_vars

\* ------------------------------------------------- the normalizer's calls

\* def add(a, b)
SigAdd == <<[name |-> "a", kind |-> "POSITIONAL_OR_KEYWORD"],
            [name |-> "b", kind |-> "POSITIONAL_OR_KEYWORD"]>>
\* def f(a, /, b)
SigPosOnly == <<[name |-> "a", kind |-> "POSITIONAL_ONLY"],
                [name |-> "b", kind |-> "POSITIONAL_OR_KEYWORD"]>>
\* def f(a, *args, **kw)
SigVar == <<[name |-> "a", kind |-> "POSITIONAL_OR_KEYWORD"],
            [name |-> "args", kind |-> "VAR_POSITIONAL"],
            [name |-> "kw", kind |-> "VAR_KEYWORD"]>>
\* def f(a, *, b)
SigKwOnly == <<[name |-> "a", kind |-> "POSITIONAL_OR_KEYWORD"],
               [name |-> "b", kind |-> "KEYWORD_ONLY"]>>

Signatures == {SigAdd, SigPosOnly, SigVar, SigKwOnly}

\* The names a call may pass by keyword.
KwNames == {"a", "b", "c"}

CallValues == {IntVal(v) : v \in 1..MaxVal}

\* A call is (args, kwargs): up to MaxPos positional values, and up to MaxKw
\* keyword arguments with distinct names, in the order the caller wrote them.
MaxPos == 2
MaxKw == 2
PositionalLists == UNION {[1..n -> CallValues] : n \in 0..MaxPos}
KeywordLists ==
    {kw \in UNION {[1..n -> [k : KwNames, v : CallValues]] : n \in 0..MaxKw} :
        \A i, j \in 1..Len(kw) : i # j => kw[i].k # kw[j].k}
Calls == [args : PositionalLists, kwargs : KeywordLists]

\* Python's binding of a call to a signature without defaults, which decides
\* the calls fn(*args, **kwargs) accepts: positional values fill the
\* positional-only and ordinary parameters in order, the rest go to *args;
\* a keyword names an ordinary parameter not yet filled or a keyword-only
\* parameter, or goes to **kw; every named parameter must be filled.
PositionalParams(sig) == NamesOfKind(sig, {"POSITIONAL_ONLY", "POSITIONAL_OR_KEYWORD"})
FilledByPosition(sig, call) ==
    {PositionalParams(sig)[j] :
        j \in 1..(IF Len(call.args) < Len(PositionalParams(sig))
                  THEN Len(call.args) ELSE Len(PositionalParams(sig)))}
FilledByKeyword(sig, call) ==
    {call.kwargs[j].k : j \in {m \in 1..Len(call.kwargs) :
                                  call.kwargs[m].k \in allowed_kwargs(sig)}}
Accepts(sig, call) ==
    /\ Len(call.args) > Len(PositionalParams(sig)) => Len(variable_args(sig)) > 0
    /\ \A j \in 1..Len(call.kwargs) :
          IF call.kwargs[j].k \in allowed_kwargs(sig)
          THEN call.kwargs[j].k \notin FilledByPosition(sig, call)
          ELSE Len(variable_kwargs(sig)) > 0
    /\ \A j \in 1..Len(sig) :
          sig[j].kind \in {"POSITIONAL_ONLY", "POSITIONAL_OR_KEYWORD", "KEYWORD_ONLY"}
              => sig[j].name \in FilledByPosition(sig, call) \cup FilledByKeyword(sig, call)

\* What the function receives: <<parameter, index in *args, name in **kw,
\* value>> for every value bound.
Binding(sig, call) ==
    {<<PositionalParams(sig)[j], 0, "", call.args[j].i>> :
        j \in {m \in 1..Len(call.args) : m <= Len(PositionalParams(sig))}}
    \cup {<<"*", j - Len(PositionalParams(sig)), "", call.args[j].i>> :
        j \in {m \in 1..Len(call.args) : m > Len(PositionalParams(sig))}}
    \cup {<<call.kwargs[j].k, 0, "", call.kwargs[j].v.i>> :
        j \in {m \in 1..Len(call.kwargs) : call.kwargs[m].k \in allowed_kwargs(sig)}}
    \cup {<<"**", 0, call.kwargs[j].k, call.kwargs[j].v.i>> :
        j \in {m \in 1..Len(call.kwargs) : call.kwargs[m].k \notin allowed_kwargs(sig)}}

\* The normalizer and the key codec applied to two calls of one function.
ArgInit ==
    /\ db = <<>>
    /\ now = [sec |-> 0, usec |-> StartUsec]
    /\ ttl = 0
    /\ limit = 0
    /\ pc = [p \in Clients |-> "idle"]
    /\ loc = [p \in Clients |-> NoLocal]
    /\ traced = {}
    /\ namespace = Namespace
    /\ \E sig \in Signatures :
       \E c1 \in {c \in Calls : Accepts(sig, c)} :
       \E c2 \in {c \in Calls : Accepts(sig, c)} :
          norm = [sig |-> sig, calls |-> <<c1, c2>>, results |-> <<>>]

\* get_key (and in it get_args) for the next call.
Normalize ==
    /\ Len(norm.results) < Len(norm.calls)
    /\ LET call == norm.calls[Len(norm.results) + 1]
       IN norm' = [norm EXCEPT !.results =
                     Append(@, [parsed |-> get_args(norm.sig, call.args, call.kwargs),
                                key |-> get_key(Prefix, namespace, norm.sig,
                                                call.args, call.kwargs)])]
    /\ UNCHANGED <<db, now, ttl, limit, pc, loc, traced, namespace>>

ArgSpec == ArgInit /\ [][Normalize]_vars

\* ------------------------------------------------------------------ claims

Min(x, y) == IF x < y THEN x ELSE y

\* The step is one of client p's.
StepOf(p) == pc'[p] # pc[p] \/ loc'[p] # loc[p]

\* A client's step that runs its queued script calls on the server.
RunsScripts(p) == StepOf(p) /\ (CallScript(p) \/ MGetExecute(p))

QueuedKeys(p) == {loc[p].queue[j].key : j \in 1..Len(loc[p].queue)}

\* C1: under a limit L > 0 the namespace's index never holds more than L
\* members, whatever script executions (from the wrapped call or from mget)
\* and other operations came before.
C1_IndexWithinLimit == limit > 0 => ZCOUNT(db, keys_key) <= limit

\* C1's case: the index is full at the largest limit, a member was added
\* after the clock had moved, and a client that missed on a key that is not
\* a member has its script call still to run.
C1_Witness ==
    /\ limit = MaxLimit
    /\ ZCOUNT(db, keys_key) = limit
    /\ \E m \in Index(db) : m.at > StartUsec
    /\ \E p \in Clients : pc[p] = "script" /\ QueuedKeys(p) \cap IndexKeys(db) = {}

\* C2 (as claimed): under a limit L > 0 the store never holds more than L
\* entries of the namespace, in any interleaving of the clients' operations.
C2_EntriesWithinLimit == limit > 0 => Cardinality(Entries(db)) <= limit

C4_NoDanglingMember == IndexKeys(db) \subseteq DOMAIN db

\* The index as the wrapped call's script has it after its ZADD, before it
\* counts and pops.
IndexAfterAdd(p) ==
    Index(ZADD(db, keys_key, LuaTime(now), loc[p].queue[1].key, Micros(now)))

\* C5 (as claimed): when the script finds count > L it removes exactly
\* count - L members from the index and the store, and they are the oldest
\* inserted: no survivor was inserted before an evicted member, nor has a
\* lower score.
C5_OldestEvictedFirst ==
    [][\A p \in Clients :
          (StepOf(p) /\ CallScript(p) /\ limit > 0
              /\ Cardinality(IndexAfterAdd(p)) > limit)
              => LET evicted == IndexAfterAdd(p) \ Index(db')
                 IN /\ Cardinality(evicted) = Cardinality(IndexAfterAdd(p)) - limit
                    /\ Index(db') \subseteq IndexAfterAdd(p)
                    /\ \A e \in evicted :
                          /\ e.member \notin DOMAIN db'
                          /\ \A m \in Index(db') : e.score <= m.score /\ e.at <= m.at]_vars

\* The two calls of the normalizer's run, once both are normalized.
BothNormalized == Len(norm.results) = 2

\* C6 (as claimed): a call that passes every value positionally and a call
\* that binds the same values to the same parameters with some passed by
\* name get the same normalized map and the same store key.
C6_SameKeyPositionalOrNamed ==
    (/\ BothNormalized
     /\ norm.calls[1].kwargs = <<>>
     /\ Binding(norm.sig, norm.calls[1]) = Binding(norm.sig, norm.calls[2]))
        => /\ DictEq(norm.results[1].parsed, norm.results[2].parsed)
           /\ norm.results[1].key = norm.results[2].key

\* C7 (as claimed): in the wrapped call a read that returns any payload, the
\* empty one included, is a hit: the payload is deserialized and returned,
\* the function is not invoked and nothing is written; only an absent value
\* is a miss.
C7_AnyPayloadIsHit ==
    [][\A a \in ArgVals :
          (StepOf(1) /\ CallRead(1, a))
              => IF GET(db, KeyOf[a]).some
                 THEN /\ pc'[1] = "done"
                      /\ loc'[1].invoked = 0
                      /\ loc'[1].queue = <<>>
                      /\ loc'[1].ret = Returned(deserializer(GET(db, KeyOf[a]).bytes))
                 ELSE /\ pc'[1] = "script"
                      /\ loc'[1].invoked = 1]_vars

\* C8: when the read raises a kind listed in fallback_exceptions the call
\* returns the function's live result and writes nothing: the keyspace is
\* unchanged and no script call is made or left to make.
C8_FallbackWritesNothing ==
    [][\A a \in ArgVals, e \in fallback_exceptions :
          (StepOf(1) /\ CallReadRaises(1, a, e))
              => /\ db' = db
                 /\ pc'[1] = "done"
                 /\ loc'[1].queue = <<>>
                 /\ loc'[1].invoked = 1
                 /\ loc'[1].ret = Returned(original_fn(loc'[1].req[1]))]_vars

\* C8's case: with no limit and no ttl nothing evicts or expires, so a call
\* that returned a computed result whose entry is not in the store wrote
\* nothing: it took the fallback.
C8_Witness ==
    /\ limit = 0
    /\ ttl = 0
    /\ pc[1] = "done"
    /\ loc[1].op = "call"
    /\ loc[1].invoked = 1
    /\ loc[1].ret.kind = "value"
    /\ KeyOf[loc[1].req[1]] \notin DOMAIN db
    /\ Entries(db) # {}

\* C9 (as claimed): when a call that invoked the function and wrote its
\* result is made again, the entry still being in the store, the second call
\* returns the same value and does not invoke the function.
C9_SecondCallIsHit ==
    [][\A a \in ArgVals :
          (/\ pc[1] = "done"
           /\ loc[1].op = "call"
           /\ loc[1].req = <<a>>
           /\ loc[1].invoked = 1
           /\ loc[1].ret.kind = "value"
           /\ KeyOf[a] \in DOMAIN db
           /\ StepOf(1)
           /\ CallRead(1, a))
              => /\ pc'[1] = "done"
                 /\ loc'[1].invoked = 0
                 /\ loc'[1].ret = loc[1].ret]_vars

\* C10 (as claimed): when invalidate_all returns, no one else writing
\* meanwhile, no key that begins with the namespace's '{prefix:namespace}:'
\* is left in the store, the index key included, and a scan of the prefix
\* finds nothing.
C10_InvalidateAllLeavesNothing ==
    [][(/\ StepOf(1)
        /\ InvalidateAllScan(1) \/ InvalidateAllDelete(1)
        /\ pc'[1] = "done")
          => /\ \A k \in DOMAIN db' : ~StartsWith(k, get_full_prefix(Prefix, namespace))
             /\ scan_iter(db', get_full_prefix(Prefix, namespace)) = <<>>
             /\ keys_key \notin DOMAIN db']_vars

\* C10's case: invalidate_all has returned after deleting the index key and
\* entries with it, and left the other namespace's key.
C10_Witness ==
    /\ pc[1] = "done"
    /\ loc[1].op = "invalidate_all"
    /\ loc[1].ret.count > MaxLimit
    /\ limit = MaxLimit
    /\ DOMAIN db = {ForeignKey}

\* C20 (as claimed): whatever the decorator's operations do under its own
\* namespace, the entry another namespace keeps under the same prefix stays
\* in the store as it was written.
C20_OtherNamespaceUntouched ==
    /\ ForeignKey \in DOMAIN db
    /\ db[ForeignKey] = StringEntry(serializer(original_fn(2)), 0)

MissSlots(d, reqs) ==
    SelectSeq([i \in 1..Len(reqs) |-> i], LAMBDA i : ~GET(d, KeyOf[reqs[i]]).some)

\* C12: mget returns one result per request in request order: slot i is the
\* deserialized cached value when key i was in the store and otherwise what
\* request i's function computes from request i's arguments; either way the
\* returned list is the list of the requests' function values.
C12_MGetInRequestOrder ==
    [][/\ \A reqs \in Requests :
            (StepOf(1) /\ MGetRead(1, reqs))
                => /\ loc'[1].ret.kind = "values"
                   /\ Len(loc'[1].ret.vals) = Len(reqs)
                   /\ \A i \in 1..Len(reqs) :
                         loc'[1].ret.vals[i] =
                             IF GET(db, KeyOf[reqs[i]]).some
                             THEN deserializer(GET(db, KeyOf[reqs[i]]).bytes)
                             ELSE original_fn(reqs[i])
       /\ (pc'[1] = "done" /\ loc'[1].op = "mget")
             => /\ Len(loc'[1].ret.vals) = Len(loc'[1].req)
                /\ \A i \in 1..Len(loc'[1].req) :
                      loc'[1].ret.vals[i] = original_fn(loc'[1].req[i])]_vars

\* C12's case: an mget of two different requests has returned, one slot a
\* hit and the other a miss.
C12_Witness ==
    /\ pc[1] = "done"
    /\ loc[1].op = "mget"
    /\ Len(loc[1].req) = MaxReqs
    /\ loc[1].invoked = 1
    /\ loc[1].ret.vals[1] # loc[1].ret.vals[2]

\* C17: mget invokes the function once for every slot the store has no
\* value for, slots with equal keys included, and for no other slot; it
\* queues one script call per such slot, in slot order, and writes nothing
\* before the pipeline is executed; the execution is one step that runs all
\* the queued calls; with no slot missing there is no pipeline execution and
\* no write.
C17_MGetOneCallPerMissingSlot ==
    [][/\ \A reqs \in Requests :
            (StepOf(1) /\ MGetRead(1, reqs))
                => LET miss == MissSlots(db, reqs)
                   IN /\ db' = db
                      /\ loc'[1].invoked = Len(miss)
                      /\ loc'[1].queue =
                            [j \in 1..Len(miss) |->
                                ScriptCall(KeyOf[reqs[miss[j]]],
                                           serializer(original_fn(reqs[miss[j]])))]
                      /\ pc'[1] = IF Len(miss) = 0 THEN "done" ELSE "pipeline"
       /\ (StepOf(1) /\ MGetExecute(1))
             => /\ pc'[1] = "done"
                /\ loc'[1].queue = <<>>
                /\ loc'[1].invoked = loc[1].invoked
                /\ loc'[1].ret = loc[1].ret
       /\ (loc'[1].op = "mget" /\ db' # db /\ StepOf(1)) => MGetExecute(1)]_vars

\* C17's case: an mget of the same request twice found neither slot in the
\* store, invoked the function twice and has two script calls for one key
\* queued, nothing executed yet.
C17_Witness ==
    /\ pc[1] = "pipeline"
    /\ loc[1].invoked = MaxReqs
    /\ Len(loc[1].queue) = MaxReqs
    /\ loc[1].queue[1].key = loc[1].queue[2].key

\* C13: an error of the script call on the miss path reaches the caller
\* whatever its kind, a kind in fallback_exceptions included; an error of
\* the read whose kind is not in fallback_exceptions reaches the caller and
\* the function is not invoked and nothing is written.
C13_ErrorsPropagate ==
    [][\A e \in ErrorKinds :
          /\ (StepOf(1) /\ CallScriptRaises(1, e))
                => /\ pc'[1] = "done"
                   /\ loc'[1].ret = Raised(e)
          /\ \A a \in ArgVals :
                (StepOf(1) /\ CallReadRaises(1, a, e) /\ e \notin fallback_exceptions)
                    => /\ pc'[1] = "done"
                       /\ loc'[1].ret = Raised(e)
                       /\ loc'[1].invoked = 0
                       /\ db' = db]_vars

\* C13's case: a call that missed and invoked the function ended with an
\* error of a kind listed in fallback_exceptions, raised by the script call.
C13_Witness ==
    /\ pc[1] = "done"
    /\ loc[1].op = "call"
    /\ loc[1].invoked = 1
    /\ loc[1].ret.kind = "raise"
    /\ loc[1].ret.err \in fallback_exceptions

\* The named parameters of a signature, in declaration order.
OrdinaryParams(sig) ==
    NamesOfKind(sig, {"POSITIONAL_ONLY", "POSITIONAL_OR_KEYWORD", "KEYWORD_ONLY"})

\* Whether the keys of a normalized map that name ordinary parameters come
\* in the order the signature declares them.
InDeclarationOrder(sig, parsed) ==
    LET declared == OrdinaryParams(sig)
        at(name) == CHOOSE j \in 1..Len(declared) : declared[j] = name
        ordinary == {i \in 1..Len(parsed) :
                        \E j \in 1..Len(declared) : declared[j] = parsed[i].k}
    IN \A i, j \in ordinary : i < j => at(parsed[i].k) < at(parsed[j].k)

\* C14 (as claimed): in every normalized map get_args produces, the keys of
\* the ordinary parameters are in the signature's declaration order, in
\* whatever order and style the caller passed them; so two calls that bind
\* the same values to the same parameters have the same key.
C14_KeysInDeclarationOrder ==
    /\ \A r \in 1..Len(norm.results) :
          InDeclarationOrder(norm.sig, norm.results[r].parsed)
    /\ (BothNormalized /\ Binding(norm.sig, norm.calls[1]) = Binding(norm.sig, norm.calls[2]))
          => norm.results[1].key = norm.results[2].key

\* C18 (as claimed): two calls the function accepts that bind different
\* argument values get different normalized maps and different store keys,
\* whatever kinds of parameter the signature has.
C18_DifferentArgsDifferentKeys ==
    (BothNormalized /\ Binding(norm.sig, norm.calls[1]) # Binding(norm.sig, norm.calls[2]))
        => /\ ~DictEq(norm.results[1].parsed, norm.results[2].parsed)
           /\ norm.results[1].key # norm.results[2].key

\* C15 (as claimed): scores follow the server's time: of two index members
\* the one whose script ran at the earlier server time has a score no
\* higher than the other's.
C15_ScoresFollowTime ==
    \A m1, m2 \in Index(db) : m1.at < m2.at => m1.score <= m2.score

\* C19 (as claimed): with a limit of 1 or more, when the script of a wrapped
\* call returns, the key it wrote is in the store and is a member of the
\* index, whatever the scores of the other members.
C19_WrittenKeySurvives ==
    [][\A p \in Clients :
          (StepOf(p) /\ CallScript(p) /\ limit >= 1)
              => /\ loc[p].queue[1].key \in DOMAIN db'
                 /\ loc[p].queue[1].key \in IndexKeys(db')]_vars

\* C16: with limit 0 an execution of the script only writes its entry key:
\* the index is not created and stays as it is, every other key keeps its
\* value and none is deleted; and an entry leaves the store only when the
\* store expires it or an invalidate or invalidate_all deletes it.
C16_NoLimitNoIndex ==
    [][limit = 0 =>
          /\ RunsScripts(1)
                => /\ keys_key \notin DOMAIN db'
                   /\ Index(db') = Index(db)
                   /\ DOMAIN db' = DOMAIN db \cup QueuedKeys(1)
                   /\ \A k \in DOMAIN db \ QueuedKeys(1) : db'[k] = db[k]
                   /\ \A j \in 1..Len(loc[1].queue) :
                         db'[loc[1].queue[j].key].type = "string"
          /\ \A k \in Entries(db) \ DOMAIN db' :
                \/ Expire(k)
                \/ \E a \in ArgVals : Invalidate(1, a)
                \/ InvalidateAllDelete(1)]_vars

\* C16's case: with limit 0 the calls have written an entry for every
\* argument value, none has been removed and there is no index.
C16_Witness ==
    /\ limit = 0
    /\ Cardinality(Entries(db)) = MaxArg
    /\ keys_key \notin DOMAIN db
    /\ pc[1] = "done"
    /\ loc[1].op \in {"call", "mget"}
    /\ loc[1].invoked >= 1

====
